---- MODULE Spec2Model ----
(***************************************************************************)
(* A state-machine model of DOASWorker (doas_routine.py): the fit-window   *)
(* resolution, the reference-window shift and the two column-amount        *)
(* retrievals (poly_DOAS, fltr_DOAS).                                      *)
(*                                                                         *)
(* Conventions                                                             *)
(*  - A numpy array is a sequence; Python index i is element i + 1.        *)
(*  - An attribute that may hold None is an option: <<>> is None and <<v>> *)
(*    is the value v.  An attribute that does not exist yet (plume_spec,   *)
(*    ref_spec, min_idx, column_amount before they are first assigned) is  *)
(*    <<>> as well; reading it raises AttributeError.                      *)
(*  - A call either returns or raises; `last` records the call that ran    *)
(*    last, the exception it raised ("none" when it returned), whether it  *)
(*    printed the message of line 68 and, for a retrieval, whether it      *)
(*    replaced values an earlier retrieval had left in mse_vals.           *)
(*  - Image loading (load_img, load_dark) is outside the model: clear_spec *)
(*    is a positive finite scalar and the spectra the caller supplies are  *)
(*    positive and finite.  Intensities are held as their natural          *)
(*    logarithms, so log(divide(a, b)) is ln a - ln b, and real arithmetic *)
(*    is exact.                                                            *)
(***************************************************************************)
EXTENDS Integers, Sequences, FiniteSets, TLC

(* ------------------------------ bounds -------------------------------- *)
\* Length of the spectra (the image width).
SpecLen == 5
\* Largest candidate column amount; stands for end_ca = 2000 of line 42.
MaxCA == 3
\* The caller sets shift within -MaxShift .. MaxShift.
MaxShift == 1

(* ------------------------- program constants -------------------------- *)
DefaultShift == 0
DefaultStartFitPix == 275
DefaultEndFitPix == 400
start_fit_wave == 305
end_fit_wave == 320
poly_order == 2
start_ca == 0
end_ca == MaxCA

(* --------------------------- numpy helpers ---------------------------- *)
None == <<>>
Some(v) == <<v>>
IsNone(o) == o = <<>>
Val(o) == o[1]

\* np.arange(a, b): a, a+1, ..., b-1; empty when b <= a.
Arange(a, b) == [k \in 1..(IF b > a THEN b - a ELSE 0) |-> a + k - 1]

\* np.zeros(n)
Zeros(n) == [k \in 1..n |-> 0]

\* A Python index i into an array of length n is valid when -n <= i < n;
\* a negative one counts from the end.
PyValid(i, n) == -n <= i /\ i < n
PyIdx(i, n) == IF i < 0 THEN i + n ELSE i

\* arr[idxs] with an integer index array: IndexError unless every index is valid.
InBounds(idxs, n) == \A k \in 1..Len(idxs) : PyValid(idxs[k], n)
Take(arr, idxs) == [k \in 1..Len(idxs) |-> arr[PyIdx(idxs[k], Len(arr)) + 1]]

RECURSIVE SeqSum(_)
SeqSum(s) == IF s = <<>> THEN 0 ELSE Head(s) + SeqSum(Tail(s))

RECURSIVE Pow(_, _)
Pow(x, k) == IF k = 0 THEN 1 ELSE x * Pow(x, k - 1)

\* np.amin of a non-empty array.
Amin(s) == CHOOSE v \in {s[k] : k \in 1..Len(s)} : \A k \in 1..Len(s) : v <= s[k]

\* np.argmin: the (0-based) index of the first occurrence of the minimum.
ArgminLast(s) == CHOOSE i \in 0..(Len(s) - 1) :
                    /\ s[i + 1] = Amin(s)
                    /\ \A j \in (i + 1)..(Len(s) - 1) : s[j + 1] # Amin(s)
ArgminIsArgmax(s) == CHOOSE i \in 0..(Len(s) - 1) : \A j \in 1..Len(s) : s[j] <= s[i + 1]
Argmin(s) == CHOOSE i \in 0..(Len(s) - 1) :
                /\ s[i + 1] = Amin(s)
                /\ \A j \in 0..(i - 1) : s[j + 1] # Amin(s)

(* ------------------------------- state -------------------------------- *)
VARIABLES
    shift,          \* self.shift
    start_fit_pix,  \* self.start_fit_pix
    end_fit_pix,    \* self.end_fit_pix
    wave_fit,       \* self.wave_fit
    wavelengths,    \* self.wavelengths: None or the calibration array
    fit_window,     \* self.fit_window: None or an index array
    fit_window_ref, \* self.fit_window_ref: None or an index array
    plume_spec,     \* self.plume_spec (ln of each intensity); absent until assigned
    ref_spec,       \* self.ref_spec; absent until assigned
    mse_vals,       \* self.mse_vals
    min_idx,        \* self.min_idx; absent until a retrieval completes
    column_amount,  \* self.column_amount; absent until a retrieval completes
    last,           \* the last call: [op, exc, printed, overwrote]
    scan_log,       \* None, or the mse_vals indices the last retrieval's scan wrote, in order
    order           \* position in the documented order of play

vars == <<shift, start_fit_pix, end_fit_pix, wave_fit, wavelengths, fit_window,
          fit_window_ref, plume_spec, ref_spec, mse_vals, min_idx, column_amount,
          last, scan_log, order>>

config == <<shift, start_fit_pix, end_fit_pix, wave_fit>>
windows == <<fit_window, fit_window_ref>>
spectra == <<plume_spec, ref_spec>>
results == <<mse_vals, min_idx, column_amount, scan_log>>

\* self.vals_ca, fixed at construction.
vals_ca == Arange(start_ca, end_ca + 1)

Ret(op, exc, printed) == [op |-> op, exc |-> exc, printed |-> printed, overwrote |-> FALSE]

\* DOASWorker.__init__
Init ==
    /\ shift = DefaultShift
    /\ start_fit_pix = DefaultStartFitPix
    /\ end_fit_pix = DefaultEndFitPix
    /\ fit_window = None
    /\ fit_window_ref = None
    /\ wave_fit = TRUE
    /\ wavelengths = None
    /\ mse_vals = Zeros(Len(vals_ca))
    /\ plume_spec = None
    /\ ref_spec = None
    /\ min_idx = None
    /\ column_amount = None
    /\ last = Ret("__init__", "none", FALSE)
    /\ scan_log = None
    /\ order = "constructed"

(* ------------------- attributes the caller assigns -------------------- *)
\* The calibration a caller can load: 300, 305, 310, ...
Calibration == [k \in 1..SpecLen |-> 300 + 5 * (k - 1)]

\* Fit-window pixel bounds <<start_fit_pix, end_fit_pix>> a caller can choose:
\* the whole spectrum, or the single pixel 1.
PixBounds == {<<0, SpecLen>>, <<1, 2>>}

\* ln of self.clear_spec (line 54).
clear_spec == 3

\* A spectrum that is a everywhere except b at pixel 1.
Line(a, b) == [k \in 1..SpecLen |-> IF k = 2 THEN b ELSE a]

\* Spectra a caller can supply: plume spectra with an absorption line of depth
\* 2 or 3 at pixel 1, reference spectra that are zero or have a line of height 2.
PlumeSpectra == {Line(clear_spec, clear_spec - d) : d \in {2, 3}}
RefSpectra == {Line(0, h) : h \in {0, 2}}

SetWavelengths ==
    /\ wavelengths' = Some(Calibration)
    /\ last' = Ret("assign", "none", FALSE)
    /\ order' = "off"
    /\ UNCHANGED <<config, windows, spectra, results>>

SetWaveFit(b) ==
    /\ wave_fit' = b
    /\ last' = Ret("assign", "none", FALSE)
    /\ order' = "off"
    /\ UNCHANGED <<shift, start_fit_pix, end_fit_pix, wavelengths, windows, spectra, results>>

SetFitPix(s, e) ==
    /\ start_fit_pix' = s
    /\ end_fit_pix' = e
    /\ last' = Ret("assign", "none", FALSE)
    /\ order' = "off"
    /\ UNCHANGED <<shift, wave_fit, wavelengths, windows, spectra, results>>

SetShift(s) ==
    /\ shift' = s
    /\ last' = Ret("assign", "none", FALSE)
    /\ order' = "off"
    /\ UNCHANGED <<start_fit_pix, end_fit_pix, wave_fit, wavelengths, windows, spectra, results>>

SetSpectra(p, r) ==
    /\ plume_spec' = Some(p)
    /\ ref_spec' = Some(r)
    /\ last' = Ret("assign", "none", FALSE)
    /\ order' = "off"
    /\ UNCHANGED <<config, wavelengths, windows, results>>

(* ----------------------------- operations ----------------------------- *)
\* DOASWorker.get_ref_spectrum
get_ref_spectrum ==
    /\ wavelengths' = None
    /\ last' = Ret("get_ref_spectrum", "none", FALSE)
    /\ order' = IF order = "constructed" THEN "ref_loaded" ELSE "off"
    /\ UNCHANGED <<config, windows, spectra, results>>

\* wavelengths - target (lines 70-71)
WaveDif(w, target) == [k \in 1..Len(w) |-> w[k] - target]

\* wave_dif.index(v) (lines 72-73): wave_dif is a numpy array, which has no
\* method index, so the attribute lookup raises AttributeError.
NdarrayIndex(arr, v) == [exc |-> "AttributeError", idx |-> 0]

\* The body of set_fit_window on a worker with these attributes: the exception
\* raised, whether line 68 printed, and start_fit_pix, end_fit_pix and
\* fit_window afterwards.
\*  - wavelength mode without a calibration (lines 67-69): print and return;
\*  - wavelength mode with a calibration (lines 70-73): the first index lookup
\*    raises, before any attribute is assigned;
\*  - pixel mode: line 75 alone.
ResolveFallsThrough(wf, w, s, e, window) ==
    [exc |-> "none", printed |-> wf /\ IsNone(w), start |-> s, end |-> e,
     window |-> Some(Arange(s, e))]
ResolveWindow(wf, w, s, e, window) ==
    IF wf /\ IsNone(w)
    THEN [exc |-> "none", printed |-> TRUE, start |-> s, end |-> e, window |-> window]
    ELSE IF wf
    THEN LET ls == NdarrayIndex(WaveDif(Val(w), start_fit_wave),
                                Amin(WaveDif(Val(w), start_fit_wave)))
             le == NdarrayIndex(WaveDif(Val(w), end_fit_wave),
                                Amin(WaveDif(Val(w), end_fit_wave)))
         IN  IF ls.exc # "none"
             THEN [exc |-> ls.exc, printed |-> FALSE, start |-> s, end |-> e,
                   window |-> window]
             ELSE IF le.exc # "none"
             THEN [exc |-> le.exc, printed |-> FALSE, start |-> ls.idx, end |-> e,
                   window |-> window]
             ELSE [exc |-> "none", printed |-> FALSE, start |-> ls.idx, end |-> le.idx,
                   window |-> Some(Arange(ls.idx, le.idx))]
    ELSE [exc |-> "none", printed |-> FALSE, start |-> s, end |-> e,
          window |-> Some(Arange(s, e))]

ApplyWindow(r) ==
    /\ last' = Ret("set_fit_window", r.exc, r.printed)
    /\ start_fit_pix' = r.start
    /\ end_fit_pix' = r.end
    /\ fit_window' = r.window

\* DOASWorker.set_fit_window
set_fit_window ==
    /\ ApplyWindow(ResolveWindow(wave_fit, wavelengths, start_fit_pix, end_fit_pix,
                                 fit_window))
    /\ order' = IF order = "ref_loaded" THEN "window_set" ELSE "off"
    /\ UNCHANGED <<shift, wave_fit, wavelengths, fit_window_ref, spectra, results>>

\* fit_window - shift (line 79), for an index array
ShiftWindowAdds(w, s) == [k \in 1..Len(w) |-> w[k] + s]
ShiftWindow(w, s) == [k \in 1..Len(w) |-> w[k] - s]

\* DOASWorker.shift_spectrum: None - shift raises TypeError.
shift_spectrum ==
    /\ order' = IF order = "window_set" THEN "shifted" ELSE "off"
    /\ IF IsNone(fit_window)
       THEN /\ last' = Ret("shift_spectrum", "TypeError", FALSE)
            /\ UNCHANGED fit_window_ref
       ELSE /\ last' = Ret("shift_spectrum", "none", FALSE)
            /\ fit_window_ref' = Some(ShiftWindow(Val(fit_window), shift))
    /\ UNCHANGED <<config, wavelengths, fit_window, spectra, results>>

(* ----------------------------- retrieval ------------------------------ *)
\* np.log(np.divide(clear_spec, plume_spec)) (lines 105, 125), on logarithms.
AbsSpec(clear, plume) == [k \in 1..Len(plume) |-> clear - plume[k]]

\* spec[window] (lines 106-107, 128-129).  Indexing with None adds a leading
\* axis of length 1 (np.newaxis): the result is the whole spectrum as a 1 x n
\* array.  Indexing with an index array raises IndexError on an invalid index.
Cut(spec, window) ==
    IF IsNone(window)
    THEN [exc |-> "none", two_d |-> TRUE, v |-> spec]
    ELSE IF ~InBounds(Val(window), Len(spec))
    THEN [exc |-> "IndexError", two_d |-> FALSE, v |-> <<>>]
    ELSE [exc |-> "none", two_d |-> FALSE, v |-> Take(spec, Val(window))]

\* Broadcasting of the last axes of two arrays (line 112).
Compatible(a, r) == Len(a.v) = Len(r.v) \/ Len(a.v) = 1 \/ Len(r.v) = 1
BroadLen(a, r) == IF Len(a.v) = 1 THEN Len(r.v) ELSE Len(a.v)
Elem(c, k) == IF Len(c.v) = 1 THEN c.v[1] ELSE c.v[k]

\* residual = abs_spec_cut - ref_spec_cut * i (lines 111-112)
Residual(abs_cut, ref_cut, i) ==
    [k \in 1..BroadLen(abs_cut, ref_cut) |-> Elem(abs_cut, k) - Elem(ref_cut, k) * i]

\* Sums over the points of the fit window: of x^k, of x^k * y, of y^2.
SumX(x, k) == SeqSum([j \in 1..Len(x) |-> Pow(x[j], k)])
SumXY(x, y, k) == SeqSum([j \in 1..Len(x) |-> Pow(x[j], k) * y[j]])
SumYY(y) == SeqSum([j \in 1..Len(y) |-> y[j] * y[j]])

Det3(a, b, c, d, e, f, g, h, i) ==
    a * (e * i - f * h) - b * (d * i - f * g) + c * (d * h - e * g)

\* The determinant of the Gram matrix of 1, x, x^2 and y,
\*     s0 s1 s2 t0
\*     s1 s2 s3 t1
\*     s2 s3 s4 t2
\*     t0 t1 t2 yy
\* expanded along its first row.
GramDet(s0, s1, s2, s3, s4, t0, t1, t2, yy) ==
      s0 * Det3(s2, s3, t1, s3, s4, t2, t1, t2, yy)
    - s1 * Det3(s1, s3, t1, s2, s4, t2, t0, t2, yy)
    + s2 * Det3(s1, s2, t1, s2, s3, t2, t0, t1, yy)
    - t0 * Det3(s1, s2, s3, s2, s3, s4, t0, t1, t2)

\* np.mean(np.power(residual - poly_vals, 2)) with poly_vals the least-squares
\* polynomial of degree poly_order = 2 through (x, y) (lines 113-116).  The sum
\* of the squared deviations from the least-squares fit is
\* det Gram(1, x, x^2, y) / det Gram(1, x, x^2); the value here is the
\* numerator, that is the mean squared error in units of
\* 1 / (Len(x) * det Gram(1, x, x^2)), a positive factor that depends on the fit
\* window alone.  With no more points than coefficients the fit is exact and
\* the error is 0.
PolyMse(x, y) ==
    IF Len(x) <= poly_order + 1 THEN 0
    ELSE GramDet(SumX(x, 0), SumX(x, 1), SumX(x, 2), SumX(x, 3), SumX(x, 4),
                 SumXY(x, y, 0), SumXY(x, y, 1), SumXY(x, y, 2), SumYY(y))

\* One pass of the loop body of poly_DOAS (lines 111-116) for candidate i:
\* the exception it raises, else the value it stores.
\*  - line 112 raises ValueError when the cuts do not broadcast;
\*  - np.polyfit raises TypeError when x is None or empty, or when x and y
\*    differ in length along the first axis;
\*  - a 1 x n residual (reference cut with fit_window_ref = None) is fitted
\*    column by column, each column a single point.
PolyIter(i, window, abs_cut, ref_cut) ==
    IF ~Compatible(abs_cut, ref_cut)
    THEN [exc |-> "ValueError", val |-> 0]
    ELSE IF IsNone(window) \/ Len(Val(window)) = 0
    THEN [exc |-> "TypeError", val |-> 0]
    ELSE IF abs_cut.two_d \/ ref_cut.two_d
    THEN IF Len(Val(window)) # 1
         THEN [exc |-> "TypeError", val |-> 0]
         ELSE [exc |-> "none",
               val |-> SeqSum([k \in 1..BroadLen(abs_cut, ref_cut) |->
                          PolyMse(Val(window), <<Residual(abs_cut, ref_cut, i)[k]>>)])]
    ELSE IF Len(Val(window)) # BroadLen(abs_cut, ref_cut)
    THEN [exc |-> "TypeError", val |-> 0]
    ELSE [exc |-> "none", val |-> PolyMse(Val(window), Residual(abs_cut, ref_cut, i))]

\* One pass of the loop body of fltr_DOAS (lines 133-135) for candidate i.
\* np.power(abs_spec_cut, ref_spec_fit, 2) passes 2 as the ufunc's third
\* positional parameter, out, which must be an array: the call raises
\* TypeError before anything is stored.
FltrIter(i, window, abs_cut, ref_cut) == [exc |-> "TypeError", val |-> 0]

\* The first value of idx (lines 109, 131).
PolyIdx0 == 0
FltrIdx0 == 1

\* self.mse_vals[idx] = val (lines 116, 135)
StoreAccumulate(mse, idx, val) == [mse EXCEPT ![PyIdx(idx, Len(mse)) + 1] = @ + val]
Store(mse, idx, val) == [mse EXCEPT ![PyIdx(idx, Len(mse)) + 1] = val]

\* The loop over vals_ca (lines 110-118, 132-136) from its k-th candidate on:
\* its[k] is the outcome of the loop body for the k-th candidate, idx the slot
\* it stores to, log the slots stored to so far.  An exception ends the loop
\* and keeps what was stored.
RECURSIVE Scan(_, _, _, _, _)
Scan(its, mse, log, k, idx) ==
    IF k > Len(its) THEN [exc |-> "none", mse |-> mse, log |-> log]
    ELSE IF its[k].exc # "none" THEN [exc |-> its[k].exc, mse |-> mse, log |-> log]
    ELSE IF ~PyValid(idx, Len(mse)) THEN [exc |-> "IndexError", mse |-> mse, log |-> log]
    ELSE Scan(its, Store(mse, idx, its[k].val), Append(log, idx), k + 1, idx + 1)

\* The candidates' loop-body outcomes, in the order of vals_ca (concatenation
\* makes the sequence a tuple, each element computed once).
Iterations(strategy, window, abs_cut, ref_cut) ==
    <<>> \o [k \in 1..Len(vals_ca) |->
               IF strategy = "poly_DOAS"
               THEN PolyIter(vals_ca[k], window, abs_cut, ref_cut)
               ELSE FltrIter(vals_ca[k], window, abs_cut, ref_cut)]

\* Lines 120-121 and 138-139 after a scan that ended without an exception.
SelectByLoopIdx(mse, i) ==
    [min_idx |-> Some(i), column_amount |-> Some(vals_ca[Len(vals_ca)])]
Select(mse, i) == [min_idx |-> Some(i), column_amount |-> Some(vals_ca[i + 1])]

Finish(scan) ==
    [exc |-> scan.exc, mse |-> scan.mse, log |-> Some(scan.log),
     sel |-> IF scan.exc = "none" THEN Select(scan.mse, Argmin(scan.mse))
             ELSE [min_idx |-> None, column_amount |-> None]]

Failed(exc, mse0) ==
    [exc |-> exc, mse |-> mse0, log |-> None,
     sel |-> [min_idx |-> None, column_amount |-> None]]

\* The loop and the selection, given the cuts of lines 106-107 and 128-129.
RetrieveCut(strategy, mse0, window, abs_cut, ref_cut) ==
    IF ref_cut.exc # "none" THEN Failed(ref_cut.exc, mse0)
    ELSE IF abs_cut.exc # "none" THEN Failed(abs_cut.exc, mse0)
    ELSE Finish(Scan(Iterations(strategy, window, abs_cut, ref_cut), mse0, <<>>, 1,
                     IF strategy = "poly_DOAS" THEN PolyIdx0 ELSE FltrIdx0))

\* poly_DOAS (strategy "poly_DOAS") or fltr_DOAS ("fltr_DOAS") run on a worker
\* whose mse_vals is mse0: the exception raised ("none" when the call returns),
\* mse_vals afterwards, the slots the scan stored to (None when the loop was
\* not reached) and, when the call returns, min_idx and column_amount.
\* Reading plume_spec or ref_spec before the caller assigned it raises
\* AttributeError.  (The filtered spectrum of line 126 is not read again.)
Retrieve(strategy, mse0, window, window_ref, plume, ref) ==
    IF IsNone(plume) \/ IsNone(ref) THEN Failed("AttributeError", mse0)
    ELSE RetrieveCut(strategy, mse0, window,
                     Cut(AbsSpec(clear_spec, Val(plume)), window),
                     Cut(Val(ref), window_ref))

\* The effect of a retrieval's outcome r on the worker: what the scan stored
\* stays stored; min_idx and column_amount are assigned only when the call
\* returns.
ApplyResult(strategy, r) ==
    /\ last' = [Ret(strategy, r.exc, FALSE) EXCEPT
                    !.overwrote = mse_vals # Zeros(Len(mse_vals)) /\ r.mse # mse_vals]
    /\ mse_vals' = r.mse
    /\ scan_log' = r.log
    /\ IF r.exc = "none"
       THEN min_idx' = r.sel.min_idx /\ column_amount' = r.sel.column_amount
       ELSE UNCHANGED <<min_idx, column_amount>>

\* DOASWorker.poly_DOAS
poly_DOAS ==
    /\ ApplyResult("poly_DOAS", Retrieve("poly_DOAS", mse_vals, fit_window, fit_window_ref,
                                         plume_spec, ref_spec))
    /\ order' = "off"
    /\ UNCHANGED <<config, wavelengths, windows, spectra>>

\* DOASWorker.fltr_DOAS
fltr_DOAS ==
    /\ ApplyResult("fltr_DOAS", Retrieve("fltr_DOAS", mse_vals, fit_window, fit_window_ref,
                                         plume_spec, ref_spec))
    /\ order' = "off"
    /\ UNCHANGED <<config, wavelengths, windows, spectra>>

\* The worker driven through its window set-up and its retrievals.
Next ==
    \/ \E b \in BOOLEAN : SetWaveFit(b)
    \/ \E b \in PixBounds : SetFitPix(b[1], b[2])
    \/ \E s \in (-MaxShift)..MaxShift : SetShift(s)
    \/ \E p \in PlumeSpectra, r \in RefSpectra : SetSpectra(p, r)
    \/ set_fit_window
    \/ shift_spectrum
    \/ poly_DOAS
    \/ fltr_DOAS

Spec == Init /\ [][Next]_vars

\* The worker driven through its window set-up alone, calibration included.
NextWindow ==
    \/ SetWavelengths
    \/ \E b \in BOOLEAN : SetWaveFit(b)
    \/ \E b \in PixBounds : SetFitPix(b[1], b[2])
    \/ \E s \in (-MaxShift)..MaxShift : SetShift(s)
    \/ get_ref_spectrum
    \/ set_fit_window
    \/ shift_spectrum

SpecWindow == Init /\ [][NextWindow]_vars

(* ------------------------------ properties ---------------------------- *)
Retrievals == {"poly_DOAS", "fltr_DOAS"}

\* The last call was a retrieval and it returned.
Completed == last.op \in Retrievals /\ last.exc = "none"

\* The error metrics the loop body of the last retrieval computes for the
\* candidates of vals_ca, in their order, from the worker's spectra and windows.
Metrics ==
    LET its == Iterations(last.op, fit_window,
                          Cut(AbsSpec(clear_spec, Val(plume_spec)), fit_window),
                          Cut(Val(ref_spec), fit_window_ref))
    IN  <<>> \o [k \in 1..Len(vals_ca) |-> its[k].val]
Candidates == 1..Len(vals_ca)
Minimal(m, k) == \A j \in Candidates : m[k] <= m[j]

\* The same retrieval on a worker as constructed (mse_vals all zero).
Fresh == Retrieve(last.op, Zeros(Len(vals_ca)), fit_window, fit_window_ref,
                  plume_spec, ref_spec)

\* Every index of a window lies in [0, SpecLen).
InRange(w) == \A k \in 1..Len(w) : 0 <= w[k] /\ w[k] < SpecLen

\* The lowest index whose wavelength is closest to target.
Abs(v) == IF v < 0 THEN -v ELSE v
NearestIdx(w, target) ==
    CHOOSE i \in 0..(Len(w) - 1) :
        /\ \A j \in 0..(Len(w) - 1) : Abs(w[i + 1] - target) <= Abs(w[j + 1] - target)
        /\ \A j \in 0..(i - 1) : Abs(w[j + 1] - target) > Abs(w[i + 1] - target)

\* C1: when a retrieval has returned, column_amount is the candidate at
\* min_idx and the error metric computed for it in this run is at most the
\* metric computed for every candidate of vals_ca.
C1_GridSearchMinimal ==
    Completed =>
        LET m == Metrics
        IN  /\ column_amount = Some(vals_ca[Val(min_idx) + 1])
            /\ Minimal(m, Val(min_idx) + 1)

\* A poly_DOAS run over the whole spectrum returned, the candidates' metrics
\* differ, and the candidate selected is neither the first nor the last.
C1_Witness ==
    /\ Completed /\ last.op = "poly_DOAS"
    /\ LET m == Metrics
       IN  /\ \E j, k \in Candidates : m[j] # m[k]
           /\ Minimal(m, Val(min_idx) + 1)
    /\ Val(column_amount) \notin {start_ca, end_ca}

\* C2: when a retrieval has returned, no candidate with a minimal error
\* metric is lower than column_amount: of the candidates that tie at the
\* minimum the lowest is selected.
C2_TieBreakLowest ==
    Completed =>
        LET m == Metrics
        IN  \A k \in Candidates : Minimal(m, k) => Val(column_amount) <= vals_ca[k]

\* A poly_DOAS run returned in which exactly two candidates, neither of them
\* the first, tie at a non-zero minimum, and the lower one is selected.
C2_Witness ==
    /\ Completed /\ last.op = "poly_DOAS"
    /\ mse_vals[Val(min_idx) + 1] > 0
    /\ LET m == Metrics
       IN  /\ Cardinality({k \in Candidates : Minimal(m, k)}) = 2
           /\ ~Minimal(m, 1)
           /\ \A k \in Candidates : Minimal(m, k) => Val(column_amount) <= vals_ca[k]

\* C3 (as claimed): after set_fit_window in wavelength mode with a calibration
\* loaded, start_fit_pix and end_fit_pix are the lowest indices whose
\* wavelengths are closest to start_fit_wave and end_fit_wave, and fit_window
\* spans them.
C3_NearestWavelength ==
    (last.op = "set_fit_window" /\ wave_fit /\ ~IsNone(wavelengths)) =>
        /\ last.exc = "none"
        /\ start_fit_pix = NearestIdx(Val(wavelengths), start_fit_wave)
        /\ end_fit_pix = NearestIdx(Val(wavelengths), end_fit_wave)
        /\ fit_window = Some(Arange(start_fit_pix, end_fit_pix))

\* C4 (as claimed): shift_spectrum raises when the shift takes an index of an
\* in-range fit window out of [0, SpecLen), and no retrieval returns a result
\* computed over a reference window with an index outside [0, SpecLen).
C4_BoundaryRejection ==
    /\ (/\ last.op = "shift_spectrum"
        /\ ~IsNone(fit_window) /\ InRange(Val(fit_window))
        /\ ~InRange(ShiftWindow(Val(fit_window), shift)))
       => last.exc # "none"
    /\ (Completed /\ ~IsNone(fit_window_ref)) => InRange(Val(fit_window_ref))

C6_SameAsFresh ==
    last.op \in Retrievals =>
        LET f == Fresh
        IN  /\ last.exc = f.exc
            /\ last.exc = "none" =>
                  /\ column_amount = f.sel.column_amount
                  /\ min_idx = f.sel.min_idx
                  /\ mse_vals[Val(min_idx) + 1] = f.mse[Val(f.sel.min_idx) + 1]

\* A retrieval returned on a worker whose mse_vals an earlier retrieval on
\* other inputs had filled, with the result of a worker as constructed.
C6_Witness ==
    /\ Completed /\ last.overwrote
    /\ mse_vals[Val(min_idx) + 1] > 0
    /\ column_amount = Fresh.sel.column_amount

\* C7: shift_spectrum leaves fit_window, start_fit_pix, end_fit_pix and shift
\* unchanged and, when fit_window is an index array, makes fit_window_ref an
\* array of the same length whose k-th index is fit_window's k-th minus shift.
C7_ShiftSemantics ==
    [][last'.op = "shift_spectrum" =>
          /\ UNCHANGED <<fit_window, start_fit_pix, end_fit_pix, shift>>
          /\ ~IsNone(fit_window) =>
                /\ last'.exc = "none"
                /\ ~IsNone(fit_window_ref')
                /\ Len(Val(fit_window_ref')) = Len(Val(fit_window))
                /\ \A k \in 1..Len(Val(fit_window)) :
                      Val(fit_window_ref')[k] = Val(fit_window)[k] - shift]_vars

\* shift_spectrum has just shifted a non-empty fit window by a negative shift.
C7_Witness ==
    /\ last.op = "shift_spectrum" /\ last.exc = "none"
    /\ shift < 0
    /\ Len(Val(fit_window)) > 1
    /\ Val(fit_window_ref)[1] = Val(fit_window)[1] - shift

\* C8: once a retrieval has returned, min_idx indexes vals_ca, column_amount is
\* vals_ca[min_idx] and lies in start_ca .. end_ca, and mse_vals[min_idx] is the
\* minimum of mse_vals.
C8_ResultWellFormed ==
    ~IsNone(min_idx) =>
        /\ Val(min_idx) \in 0..(Len(vals_ca) - 1)
        /\ column_amount = Some(vals_ca[Val(min_idx) + 1])
        /\ start_ca <= Val(column_amount) /\ Val(column_amount) <= end_ca
        /\ \A k \in 1..Len(mse_vals) : mse_vals[Val(min_idx) + 1] <= mse_vals[k]

\* A retrieval has returned with a selection that is not the first candidate,
\* and a later retrieval raised.
C8_Witness ==
    /\ ~IsNone(min_idx) /\ Val(min_idx) > 0
    /\ last.op \in Retrievals /\ last.exc # "none"
    /\ \E k \in 1..Len(mse_vals) : mse_vals[Val(min_idx) + 1] < mse_vals[k]

\* The inputs of a retrieval are usable: the spectra are assigned and both fit
\* windows are non-empty index arrays of one length within [0, SpecLen).
ValidInputs ==
    /\ ~IsNone(plume_spec) /\ ~IsNone(ref_spec)
    /\ ~IsNone(fit_window) /\ ~IsNone(fit_window_ref)
    /\ Len(Val(fit_window)) > 0
    /\ Len(Val(fit_window_ref)) = Len(Val(fit_window))
    /\ InRange(Val(fit_window)) /\ InRange(Val(fit_window_ref))

\* C9 (as claimed): after a retrieval on usable inputs the scan has run and
\* its k-th iteration has stored to mse_vals[k] and to no other slot: the slots
\* stored to are 0, 1, ..., len(mse_vals) - 1, in this order.
C9_SlotDiscipline ==
    (last.op \in Retrievals /\ ValidInputs) =>
        scan_log = Some(Arange(0, Len(mse_vals)))

\* C10 (as claimed): on a worker as constructed, after get_ref_spectrum,
\* set_fit_window and shift_spectrum in this order, shift_spectrum has
\* returned and fit_window and fit_window_ref are index arrays of one length.
C10_OrderOfPlay ==
    /\ order = "window_set" => ~IsNone(fit_window)
    /\ order = "shifted" =>
          /\ last.exc = "none"
          /\ ~IsNone(fit_window) /\ ~IsNone(fit_window_ref)
          /\ Len(Val(fit_window_ref)) = Len(Val(fit_window))
====
